---- MODULE Spec2Model ----
(***************************************************************************)
(* PyHeart: controller -> use case -> repository over PostgreSQL, with the *)
(* request-scoped transaction mechanism of src/internal/transaction.py.    *)
(*                                                                         *)
(* Every request is an asyncio task.  A step of the model is the code a    *)
(* task runs between two suspension points (await of the pool, of the      *)
(* database, of pool.release); tasks interleave at those points only.      *)
(***************************************************************************)
EXTENDS Integers, Sequences, FiniteSets, TLC

\* ------------------------------------------------------------------------
\* Bounds of the model
\* ------------------------------------------------------------------------
MaxReq == 2        \* requests served in a run
MaxActive == 2     \* requests in progress at the same time
PoolSize == 2      \* stands for max_size of the pool

Reqs == 1..MaxActive
TxIds == 1..MaxReq
Conns == 1..PoolSize

Names == {"n1", "n2"}
Contents == {"c1", "c2"}
NoneV == "None"
Tables == {"internal", "notes", "tasks"}

\* ------------------------------------------------------------------------
\* Program constants
\* ------------------------------------------------------------------------
HTTP_200_OK == 200
HTTP_201_CREATED == 201
HTTP_404_NOT_FOUND == 404
HTTP_500 == 500
DefaultLimit == 100
DefaultOffset == 0

\* ------------------------------------------------------------------------
\* Rows and tables.  A table maps a name to its row; name is unique.
\* ------------------------------------------------------------------------
\* SQL booleans are written as strings so that a null parameter (NoneV) and a
\* value compare
SqlTrue == "true"
SqlFalse == "false"

NoRow == [present |-> FALSE, content |-> NoneV, deleted |-> SqlFalse, complete |-> SqlFalse,
          date_create |-> NoneV]

\* insert into t(name, content): the columns deleted, complete and
\* date_create take their defaults; the time of creation is written "created"
NewRow(content) == [present |-> TRUE, content |-> content, deleted |-> SqlFalse, complete |-> SqlFalse,
                    date_create |-> "created"]

EmptyTable == [n \in Names |-> NoRow]

\* the row as a statement returns it (returning id, name, ...)
Returned(n, row) ==
    [name |-> n, content |-> row.content, deleted |-> row.deleted, complete |-> row.complete,
     date_create |-> row.date_create]

\* COALESCE($1, column)
COALESCE(a, b) == IF a = NoneV THEN b ELSE a

\* ------------------------------------------------------------------------
\* Exceptions
\* ------------------------------------------------------------------------
CoreExceptions == {"EmptyResultException", "NoteCreateException", "NoteUpdateException"}

status_code(e) ==
    CASE e = "EmptyResultException" -> 200
      [] e = "NoteCreateException" -> 400
      [] e = "NoteUpdateException" -> 400

\* the source spells the apostrophe of both messages as a backquote
detail(e) ==
    CASE e = "EmptyResultException" -> "empty result."
      [] e = "NoteCreateException" -> "can-t create notes"
      [] e = "NoteUpdateException" -> "can-t update notes"

\* ------------------------------------------------------------------------
\* SQL statements of the repositories, as functions of a table
\* ------------------------------------------------------------------------
Min(a, b) == IF a < b THEN a ELSE b

\* every order in which the rows of a set of names can be returned (the
\* select statements have no ORDER BY)
RECURSIVE Orders(_)
Orders(S) ==
    IF S = {} THEN {<<>>}
    ELSE UNION {{<<n>> \o rest : rest \in Orders(S \ {n})} : n \in S}

\* limit $n offset $m applied to a sequence of rows
LimitOffset(rows, limit, offset) ==
    SubSeq(rows, offset + 1, Min(Len(rows), offset + limit))

\* the select without its name condition
SelectQueryAnyName(tbl, name, limit, offset) ==
    LET hit == {n \in Names : tbl[n].present}
    IN {LimitOffset([k \in 1..Len(o) |-> Returned(o[k], tbl[o[k]])], limit, offset) : o \in Orders(hit)}

\* SelectQuery: where ($1 is null or name = $1) limit .. offset ..
SelectQuery(tbl, name, limit, offset) ==
    LET hit == {n \in Names : tbl[n].present /\ (name = NoneV \/ n = name)}
    IN {LimitOffset([k \in 1..Len(o) |-> Returned(o[k], tbl[o[k]])], limit, offset) : o \in Orders(hit)}

\* CreateQuery: insert ... returning; a present name violates the unique index
CreateQuery(tbl, name, content) ==
    IF tbl[name].present
    THEN [tbl |-> tbl, res |-> <<>>, err |-> "UniqueViolationError"]
    ELSE [tbl |-> [tbl EXCEPT ![name] = NewRow(content)],
          res |-> <<Returned(name, NewRow(content))>>, err |-> "none"]

\* an update that does not set the column content
UpdateQueryKeepsContent(tbl, name, content, deleted, complete) ==
    IF ~tbl[name].present
    THEN [tbl |-> tbl, res |-> <<>>, err |-> "none"]
    ELSE LET row == [present |-> TRUE,
                     content |-> tbl[name].content,
                     deleted |-> COALESCE(deleted, tbl[name].deleted),
                     complete |-> COALESCE(complete, tbl[name].complete),
                     date_create |-> tbl[name].date_create]
         IN [tbl |-> [tbl EXCEPT ![name] = row], res |-> <<Returned(name, row)>>, err |-> "none"]

\* an update that inserts the row when no row has the name
UpdateQueryUpsert(tbl, name, content, deleted, complete) ==
    LET row == [present |-> TRUE,
                content |-> COALESCE(content, tbl[name].content),
                deleted |-> COALESCE(deleted, tbl[name].deleted),
                complete |-> COALESCE(complete, tbl[name].complete),
                     date_create |-> tbl[name].date_create]
    IN [tbl |-> [tbl EXCEPT ![name] = row], res |-> <<Returned(name, row)>>, err |-> "none"]

\* UpdateQuery: update ... set content = COALESCE($1, content), deleted =
\* COALESCE($3, deleted), complete = COALESCE($4, complete) where name = $2
UpdateQuery(tbl, name, content, deleted, complete) ==
    IF ~tbl[name].present
    THEN [tbl |-> tbl, res |-> <<>>, err |-> "none"]
    ELSE LET row == [present |-> TRUE,
                     content |-> COALESCE(content, tbl[name].content),
                     deleted |-> COALESCE(deleted, tbl[name].deleted),
                     complete |-> COALESCE(complete, tbl[name].complete),
                     date_create |-> tbl[name].date_create]
         IN [tbl |-> [tbl EXCEPT ![name] = row], res |-> <<Returned(name, row)>>, err |-> "none"]

\* DeleteQuery (internal): delete from internal where name = $1 returning
DeleteQuery(tbl, name) ==
    IF ~tbl[name].present
    THEN [tbl |-> tbl, res |-> <<>>, err |-> "none"]
    ELSE [tbl |-> [tbl EXCEPT ![name] = NoRow], res |-> <<Returned(name, tbl[name])>>, err |-> "none"]

\* ------------------------------------------------------------------------
\* The use cases and controllers as instruction sequences.
\*   TXE / TXX   entry to / normal return from a @transaction wrapper
\*   CTXE / CTXX entry to / normal exit from an "async with tx()" block
\*   F           a QueryExecute statement  (driver.force_select)
\*   T           a QueryTxExecute statement (driver.transaction_select)
\*   EMPTY       if len(effect) == 0: raise EmptyResultException()
\*   DUMP        result.model_dump() in the controller
\*   RAISE       raise q
\* ------------------------------------------------------------------------
I(i, q, t) == [i |-> i, q |-> q, t |-> t]

TXE == I("TXE", "-", "-")
TXX == I("TXX", "-", "-")
CTXE == I("CTXE", "-", "-")
CTXX == I("CTXX", "-", "-")
EMPTY == I("EMPTY", "-", "-")
DUMP == I("DUMP", "-", "-")
RAISE(e) == I("RAISE", e, "-")

\* mock_select: internal SelectQuery(name="1", limit=1, offset=0)
mock_select == <<I("F", "mock", "internal")>>

NotesV1US_get == <<I("F", "select", "notes")>>
NotesV1US_create == <<TXE, I("T", "insert", "notes"), TXX>>
NotesV1US_update == <<TXE, I("F", "update", "notes"), EMPTY, TXX>>
\* a delete of the note's row in place of the update of its deleted column
NotesV1US_hard_delete == <<I("F", "delete", "notes"), EMPTY>>

NotesV1US_delete == <<I("F", "softdel", "notes"), EMPTY>>

TasksV1US_get == <<I("F", "select", "tasks")>>
TasksV1US_create == <<TXE, I("T", "insert", "tasks"), TXX>>
TasksV1US_update == <<TXE, I("F", "update", "tasks"), EMPTY, TXX>>
TasksV1US_delete == <<I("F", "softdel", "tasks"), EMPTY>>

InternalPgV1US_get == <<I("F", "select", "internal")>>
InternalPgV1US_create == <<I("T", "insert", "internal")>>
InternalPgV1US_update == <<I("F", "update", "internal")>>
InternalPgV1US_delete == <<I("F", "delete", "internal")>>
create_tx == <<TXE>> \o mock_select \o <<I("T", "insert", "internal"), TXX>>
update_tx == <<TXE>> \o mock_select \o <<I("F", "update", "internal"), TXX>>
delete_tx == <<TXE>> \o mock_select \o <<I("F", "delete", "internal"), TXX>>
create_tx_exc == <<TXE>> \o mock_select \o <<I("T", "insert", "internal"), RAISE("ValueError")>>
update_tx_exc == <<TXE>> \o mock_select \o <<I("F", "update", "internal"), RAISE("ValueError")>>
delete_tx_exc == <<TXE>> \o mock_select \o <<I("F", "delete", "internal"), RAISE("ValueError")>>

\* callers of the transaction API that nest it: a @transaction function that
\* calls NotesV1US.create, a @transaction function with a tx() block inside,
\* and a plain tx() block; with raises the caller's own body raises after
\* its statement
Raising(raises) == IF raises THEN <<RAISE("ValueError")>> ELSE <<>>

nested_transaction(raises) == <<TXE>> \o NotesV1US_create \o Raising(raises) \o <<TXX>>
nested_tx(raises) == <<TXE, CTXE, I("T", "insert", "notes"), CTXX>> \o Raising(raises) \o <<TXX>>
tx_block(raises) == <<CTXE, I("T", "insert", "notes")>> \o Raising(raises) \o <<CTXX>>

HttpRoutes == {"notes", "tasks", "simple", "transaction", "transaction_exception"}
CallerRoutes == {"nested_transaction", "nested_tx", "tx_block"}

\* the controller method: its use case, then model_dump() of the result for
\* the methods that return one object
Program(op) ==
    CASE op.route = "notes" /\ op.method = "GET" -> NotesV1US_get
      [] op.route = "notes" /\ op.method = "POST" -> NotesV1US_create \o <<DUMP>>
      [] op.route = "notes" /\ op.method = "PATCH" -> NotesV1US_update \o <<DUMP>>
      [] op.route = "notes" /\ op.method = "DELETE" -> NotesV1US_delete \o <<DUMP>>
      [] op.route = "tasks" /\ op.method = "GET" -> TasksV1US_get
      [] op.route = "tasks" /\ op.method = "POST" -> TasksV1US_create \o <<DUMP>>
      [] op.route = "tasks" /\ op.method = "PATCH" -> TasksV1US_update \o <<DUMP>>
      [] op.route = "tasks" /\ op.method = "DELETE" -> TasksV1US_delete \o <<DUMP>>
      [] op.route = "simple" /\ op.method = "GET" -> InternalPgV1US_get
      [] op.route = "simple" /\ op.method = "POST" -> InternalPgV1US_create \o <<DUMP>>
      [] op.route = "simple" /\ op.method = "PATCH" -> InternalPgV1US_update \o <<DUMP>>
      [] op.route = "simple" /\ op.method = "DELETE" -> InternalPgV1US_delete \o <<DUMP>>
      [] op.route = "transaction" /\ op.method = "POST" -> create_tx \o <<DUMP>>
      [] op.route = "transaction" /\ op.method = "PATCH" -> update_tx \o <<DUMP>>
      [] op.route = "transaction" /\ op.method = "DELETE" -> delete_tx \o <<DUMP>>
      [] op.route = "transaction_exception" /\ op.method = "POST" -> create_tx_exc \o <<DUMP>>
      [] op.route = "transaction_exception" /\ op.method = "PATCH" -> update_tx_exc \o <<DUMP>>
      [] op.route = "transaction_exception" /\ op.method = "DELETE" -> delete_tx_exc \o <<DUMP>>
      [] op.route = "nested_transaction" -> nested_transaction(op.raises)
      [] op.route = "nested_tx" -> nested_tx(op.raises)
      [] op.route = "tx_block" -> tx_block(op.raises)

\* status_code of the @router decorator of each controller method
RouterStatus(op) == IF op.method = "POST" THEN HTTP_201_CREATED ELSE HTTP_200_OK

\* the requests: a route, a method and the parameters the method takes
Op(route, method, name, val, limit, offset, raises) ==
    [route |-> route, method |-> method, name |-> name, val |-> val,
     limit |-> limit, offset |-> offset, raises |-> raises, complete |-> NoneV]

\* the pagination of a GET: the defaults, and the second page of size one
Pages == {<<DefaultLimit, DefaultOffset>>, <<1, 1>>}

\* the content a request sends; the rows of the initial tables hold "c1"
Vals == {"c2"}

\* the payload of PATCH /v1/tasks/ (UpdatePldModel) has the required field
\* complete
TasksPatch(o) == o.route = "tasks" /\ o.method = "PATCH"

HttpOps ==
    {Op(r, "GET", n, NoneV, pg[1], pg[2], FALSE) :
        r \in {"notes", "tasks", "simple"}, n \in Names \cup {NoneV}, pg \in Pages}
    \cup {o \in {Op(r, m, n, v, DefaultLimit, DefaultOffset, FALSE) :
                    r \in HttpRoutes, m \in {"POST", "PATCH"}, n \in Names, v \in Vals} :
                ~TasksPatch(o)}
    \cup {[Op("tasks", "PATCH", n, v, DefaultLimit, DefaultOffset, FALSE) EXCEPT !.complete = b] :
                n \in Names, v \in Vals, b \in {SqlTrue, SqlFalse}}
    \cup {Op(r, "DELETE", n, NoneV, DefaultLimit, DefaultOffset, FALSE) :
        r \in HttpRoutes, n \in Names}

CallerOps ==
    {Op(r, "CALL", n, v, DefaultLimit, DefaultOffset, b) :
        r \in CallerRoutes, n \in Names, v \in Vals, b \in BOOLEAN}

\* the table of the statements of a request
TableOf(o) ==
    IF o.route \in {"notes", "tasks"} THEN o.route
    ELSE IF o.route \in CallerRoutes THEN "notes"
    ELSE "internal"

NoOp == Op("-", "-", NoneV, NoneV, DefaultLimit, DefaultOffset, FALSE)

\* ------------------------------------------------------------------------
\* Responses
\* ------------------------------------------------------------------------
NullPayload == [kind |-> "null", rows |-> <<>>]

NoResp == [status |-> 0, shape |-> "-", payload |-> NullPayload, status_code |-> 0, exception |-> <<>>]

\* the value the controller method returns: the list of a GET, else the one
\* object
HandlerValue(o, rows) ==
    IF o.method = "GET" THEN [kind |-> "list", rows |-> rows]
    ELSE [kind |-> "obj", rows |-> rows]

\* the wrapper filled without the status code of the response, which leaves
\* the default of MasterResponseModel.status_code
custom_handler_default(o, rows) ==
    [status |-> RouterStatus(o), shape |-> "object", payload |-> HandlerValue(o, rows),
     status_code |-> HTTP_200_OK, exception |-> <<>>]

\* MasterRoute.custom_handler: MasterResponseModel(payload, status_code,
\* exception={}) sent with the status code of the response; the exception
\* object is written as the sequence of its message values
custom_handler(o, rows) ==
    [status |-> RouterStatus(o), shape |-> "object", payload |-> HandlerValue(o, rows),
     status_code |-> RouterStatus(o), exception |-> <<>>]

\* the response of the framework's own handler of HTTPException, which has
\* the one key detail
http_exception_handler(e) ==
    [status |-> status_code(e), shape |-> "object", payload |-> NullPayload,
     status_code |-> 0, exception |-> <<>>]

\* HttpCmd.validation_exception_handler
validation_exception_handler(e) ==
    [status |-> status_code(e), shape |-> "object", payload |-> NullPayload,
     status_code |-> status_code(e), exception |-> <<detail(e)>>]

\* any other exception: the server error response
ServerError == [status |-> HTTP_500, shape |-> "text", payload |-> NullPayload,
                status_code |-> 0, exception |-> <<>>]

Response(o, e, rows) ==
    IF o.route \notin HttpRoutes THEN NoResp
    ELSE IF e = "none" THEN custom_handler(o, rows)
    ELSE IF e \in CoreExceptions THEN validation_exception_handler(e)
    ELSE ServerError

\* query classes without an exception_map
exception_map_none(t, q, e) == e

\* Query.execute: exception_map of the query class, else the exception itself
exception_map(t, q, e) ==
    IF t = "notes" /\ q = "insert" /\ e = "UniqueViolationError" THEN "NoteCreateException"
    ELSE IF t = "notes" /\ q \in {"update", "softdel"} /\ e = "UniqueViolationError" THEN "NoteUpdateException"
    ELSE e

\* ------------------------------------------------------------------------
\* The transaction context
\* ------------------------------------------------------------------------
\* a wrapper that never looks the connection up
NeverRegistered(m, t) == FALSE

\* conn = driver.conn.get(get_tx_id()); if conn is not None
Registered(m, t) == m[t] # 0

\* the del statement outside of a finally clause, in transaction as in tx()
ConnAfterExitNoFinally(kind, e, m, t) ==
    IF e = "none" THEN [m EXCEPT ![t] = 0] ELSE m

\* the connection map when the call that registered the connection is left:
\* transaction deletes the entry in a finally clause, tx() after the block
ConnAfterExit(kind, e, m, t) ==
    IF kind = "transaction" \/ e = "none" THEN [m EXCEPT ![t] = 0] ELSE m

Frame(kind, owner, c) == [kind |-> kind, owner |-> owner, c |-> c]

Top(fs) == fs[Len(fs)]
Pop(fs) == SubSeq(fs, 1, Len(fs) - 1)

\* ------------------------------------------------------------------------
\* _Singleton, the metaclass of PostgresDriver and of RedisDriver.  A string
\* is the sequence of its characters.
\* ------------------------------------------------------------------------
MaxCalls == 3      \* constructor calls of one driver class in a run

Drivers == {"PostgresDriver", "RedisDriver"}

\* str(host) and str(port) of the calls
Hosts == {<<"d", "b">>, <<"d", "b", "1">>}
Ports == {<<"5">>, <<"1", "5">>}

\* the parameter values of a call: host, port, username, password, db
Params == {[host |-> h, port |-> q, username |-> <<"u">>, password |-> <<"p">>, db |-> <<"x">>] :
              h \in Hosts, q \in Ports}

\* the order in which a call names its keyword arguments: the order of
\* __init__, or port before host
Orders2 == {"declared", "port_first"}

\* the values of the keyword arguments in the order of the call
KwargsValues(prm, order) ==
    IF order = "declared"
    THEN <<prm.host, prm.port, prm.username, prm.password, prm.db>>
    ELSE <<prm.port, prm.host, prm.username, prm.password, prm.db>>

\* "".join(result)
RECURSIVE Join(_)
Join(strs) == IF strs = <<>> THEN <<>> ELSE Head(strs) \o Join(Tail(strs))

\* _Singleton._merge_param: the digest of the joined str() of the values;
\* the digest is written as the string it is taken of
merge_param(values) == Join(values)

NoDrivers == [inst_map |-> {}, insts |-> <<>>, calls |-> {}]

\* ------------------------------------------------------------------------
\* State
\* ------------------------------------------------------------------------
VARIABLES
    lifespan,   \* the startup event: "pending", "done", or "skipped" (no lifespan run)
    pool,       \* driver.pool is not None
    pools,      \* number of pools created by asyncpg.create_pool
    holder,     \* pool connection -> the request that acquired it, 0 when free
    pend,       \* connection -> the uncommitted inserts of its open transaction
    conn,       \* driver.conn: transaction id -> connection, 0 for no entry
    nextTx,     \* the next value of uuid4().hex
    db,         \* the committed tables
    pc, tx, op, ip, frames, exc, res, resp, mine, goal,   \* per request
    eff,        \* per request: what became of the rows its write statement touched
    wconn,      \* per request: the connection its write statement ran on
    had,        \* per request: the row it names existed when it was dispatched
    gone,       \* per request: the names soft-deleted in its table when it was dispatched
    drivers     \* driver class -> _inst_map, the instances made, the calls made

vars == <<lifespan, pool, pools, holder, pend, conn, nextTx, db,
          pc, tx, op, ip, frames, exc, res, resp, mine, goal, eff, wconn, had, gone, drivers>>

shared == <<lifespan, pool, pools, holder, pend, conn, nextTx, db>>

InitTable == [EmptyTable EXCEPT !["n1"] = NewRow("c1")]

Init ==
    /\ lifespan \in {"pending", "skipped"}
    /\ pool = FALSE
    /\ pools = 0
    /\ holder = [c \in Conns |-> 0]
    /\ pend = [c \in Conns |-> {}]
    /\ conn = [t \in TxIds |-> 0]
    /\ nextTx = 1
    /\ db = [t \in Tables |-> InitTable]
    /\ pc = [r \in Reqs |-> "idle"]
    /\ tx = [r \in Reqs |-> 0]
    /\ op = [r \in Reqs |-> NoOp]
    /\ ip = [r \in Reqs |-> 0]
    /\ frames = [r \in Reqs |-> <<>>]
    /\ exc = [r \in Reqs |-> "none"]
    /\ res = [r \in Reqs |-> <<>>]
    /\ resp = [r \in Reqs |-> NoResp]
    /\ mine = [r \in Reqs |-> 0]
    /\ goal = [r \in Reqs |-> "-"]
    /\ eff = [r \in Reqs |-> "none"]
    /\ wconn = [r \in Reqs |-> "none"]
    /\ had = [r \in Reqs |-> FALSE]
    /\ gone = [r \in Reqs |-> {}]
    /\ drivers = [cls \in Drivers |-> NoDrivers]

\* the tasks that are running or scheduled to run: the event loop runs one
\* task at a time and switches only where the running task awaits.  A task
\* whose "await pool.release(conn)" has put the connection back ("leave") is
\* already scheduled, in front of every task that waits for an answer of the
\* database, so it runs before any of them
Running == {r \in Reqs : pc[r] \in {"run", "unwind", "done", "leave"}}
Scheduled(r) == Running \subseteq {r}

Ins(r) == Program(op[r])[ip[r]]
AtIns(r) == pc[r] = "run" /\ ip[r] <= Len(Program(op[r]))

\* the table t as the statements of connection c see it: the committed rows
\* and the uncommitted inserts of c's own transaction
View(c, t) ==
    [n \in Names |->
        IF \E p \in pend[c] : p.t = t /\ p.name = n
        THEN NewRow((CHOOSE p \in pend[c] : p.t = t /\ p.name = n).content)
        ELSE db[t][n]]

\* the committed tables after the transaction of connection c commits
Committed(c) == [t \in Tables |-> View(c, t)]

\* an insert waits while another open transaction holds an uncommitted row
\* of the same name
Blocked(c, t, n) ==
    /\ ~db[t][n].present
    /\ \E c2 \in Conns \ {c} : \E p \in pend[c2] : p.t = t /\ p.name = n

Writes == {"insert", "update", "softdel", "delete"}

\* the possible outcomes of the statement q of request parameters o on table
\* value tbl
Statement(q, o, tbl) ==
    CASE q = "select" ->
            {[tbl |-> tbl, res |-> rows, err |-> "none"] :
                rows \in SelectQuery(tbl, o.name, o.limit, o.offset)}
      [] q = "mock" ->
            {[tbl |-> tbl, res |-> rows, err |-> "none"] :
                rows \in SelectQuery(tbl, "1", 1, 0)}
      [] q = "insert" -> {CreateQuery(tbl, o.name, o.val)}
      [] q = "update" -> {UpdateQuery(tbl, o.name, o.val, NoneV, NoneV)}
      [] q = "softdel" -> {UpdateQuery(tbl, o.name, NoneV, SqlTrue, NoneV)}
      [] q = "delete" -> {DeleteQuery(tbl, o.name)}

\* ------------------------------------------------------------------------
\* Actions
\* ------------------------------------------------------------------------
\* HttpCmd.starup: InitConnectionQuery creates the pool before any request
starup ==
    /\ lifespan = "pending"
    /\ lifespan' = "done"
    /\ pool' = TRUE
    /\ pools' = pools + 1
    /\ UNCHANGED <<holder, pend, conn, nextTx, db,
                   pc, tx, op, ip, frames, exc, res, resp, mine, goal, eff, wconn, had, gone, drivers>>

\* a TX_ID that is set once and shared by every request
shared_tx_id(n) == 1

\* make_tx_id: TX_ID.set(uuid4().hex); the n-th value of uuid4 is n
make_tx_id(n) == n

\* MasterMiddelware.dispatch: make_tx_id(), then the route
dispatch(r, o) ==
    /\ pc[r] = "idle"
    /\ \A r2 \in Reqs : r2 < r => pc[r2] # "idle"
    /\ Running = {}
    /\ lifespan \in {"done", "skipped"}
    /\ nextTx <= MaxReq
    /\ tx' = [tx EXCEPT ![r] = make_tx_id(nextTx)]
    /\ nextTx' = nextTx + 1
    /\ op' = [op EXCEPT ![r] = o]
    /\ ip' = [ip EXCEPT ![r] = 1]
    /\ pc' = [pc EXCEPT ![r] = "run"]
    /\ had' = [had EXCEPT ![r] = o.name \in Names /\ db[TableOf(o)][o.name].present]
    /\ gone' = [gone EXCEPT ![r] = {n \in Names : db[TableOf(o)][n].deleted = SqlTrue}]
    /\ UNCHANGED <<lifespan, pool, pools, holder, pend, conn, db,
                   frames, exc, res, resp, mine, goal, eff, wconn, drivers>>

\* transaction.wrapper / tx up to the first await
enter(r) ==
    /\ Scheduled(r)
    /\ AtIns(r)
    /\ Ins(r).i \in {"TXE", "CTXE"}
    /\ LET kind == IF Ins(r).i = "TXE" THEN "transaction" ELSE "tx"
       IN IF Registered(conn, tx[r])
          THEN /\ frames' = [frames EXCEPT ![r] = Append(@, Frame(kind, FALSE, conn[tx[r]]))]
               /\ ip' = [ip EXCEPT ![r] = @ + 1]
               /\ UNCHANGED <<pc, goal>>
          ELSE /\ goal' = [goal EXCEPT ![r] = kind]
               /\ pc' = [pc EXCEPT ![r] = IF pool THEN "acquire" ELSE "init_pool"]
               /\ UNCHANGED <<frames, ip>>
    /\ UNCHANGED <<shared, tx, op, exc, res, resp, mine, eff, wconn, had, gone, drivers>>

\* QueryExecute._execute / QueryTxExecute._execute up to the first await
start_query(r) ==
    /\ Scheduled(r)
    /\ AtIns(r)
    /\ Ins(r).i \in {"F", "T"}
    /\ IF Ins(r).i = "T" /\ conn[tx[r]] # 0
       THEN /\ goal' = [goal EXCEPT ![r] = "registered"]
            /\ pc' = [pc EXCEPT ![r] = "query"]
       ELSE /\ goal' = [goal EXCEPT ![r] =
                    IF Ins(r).i = "F" THEN "force_select" ELSE "transaction_select"]
            /\ pc' = [pc EXCEPT ![r] = IF pool THEN "acquire" ELSE "init_pool"]
    /\ UNCHANGED <<shared, tx, op, ip, frames, exc, res, resp, mine, eff, wconn, had, gone, drivers>>

\* PostgresDriver._init_pool, the branch taken when self.pool was None
init_pool(r) ==
    /\ Scheduled(r)
    /\ pc[r] = "init_pool"
    /\ pool' = TRUE
    /\ pools' = pools + 1
    /\ pc' = [pc EXCEPT ![r] = "acquire"]
    /\ UNCHANGED <<lifespan, holder, pend, conn, nextTx, db,
                   tx, op, ip, frames, exc, res, resp, mine, goal, eff, wconn, had, gone, drivers>>

\* driver.pool.acquire() returns a free connection
acquire(r, c) ==
    /\ Scheduled(r)
    /\ pc[r] = "acquire"
    /\ holder[c] = 0
    /\ holder' = [holder EXCEPT ![c] = r]
    /\ mine' = [mine EXCEPT ![r] = c]
    /\ pc' = [pc EXCEPT ![r] = IF goal[r] \in {"transaction", "tx"} THEN "begin" ELSE "query"]
    /\ UNCHANGED <<lifespan, pool, pools, pend, conn, nextTx, db,
                   tx, op, ip, frames, exc, res, resp, goal, eff, wconn, had, gone, drivers>>

\* driver.pool.acquire() raises; in transaction.wrapper the finally clause
\* then deletes a key that is not in the map
acquire_fail(r) ==
    /\ Scheduled(r)
    /\ pc[r] = "acquire"
    /\ exc' = [exc EXCEPT ![r] = IF goal[r] = "transaction" THEN "KeyError" ELSE "PostgresError"]
    /\ goal' = [goal EXCEPT ![r] = "-"]
    /\ pc' = [pc EXCEPT ![r] = "unwind"]
    /\ UNCHANGED <<shared, tx, op, ip, frames, res, resp, mine, eff, wconn, had, gone, drivers>>

\* conn.transaction() has begun: driver.conn[get_tx_id()] = conn, then the body
begin(r) ==
    /\ Scheduled(r)
    /\ pc[r] = "begin"
    /\ conn' = [conn EXCEPT ![tx[r]] = mine[r]]
    /\ frames' = [frames EXCEPT ![r] = Append(@, Frame(goal[r], TRUE, mine[r]))]
    /\ mine' = [mine EXCEPT ![r] = 0]
    /\ goal' = [goal EXCEPT ![r] = "-"]
    /\ ip' = [ip EXCEPT ![r] = @ + 1]
    /\ pc' = [pc EXCEPT ![r] = "run"]
    /\ UNCHANGED <<lifespan, pool, pools, holder, pend, nextTx, db,
                   tx, op, exc, res, resp, eff, wconn, had, gone, drivers>>

\* the statement runs: on the registered connection inside its transaction
\* (transaction_select with an entry in the map), else on the connection
\* just acquired, committed at once (force_select; transaction_select
\* without an entry, whose transaction holds this one statement)
query(r) ==
    /\ Scheduled(r)
    /\ pc[r] = "query"
    /\ LET q == Ins(r).q
           t == Ins(r).t
           reg == goal[r] = "registered"
           c == IF reg THEN conn[tx[r]] ELSE mine[r]
       IN /\ q = "insert" => ~Blocked(c, t, op[r].name)
          /\ \E st \in Statement(q, op[r], View(c, t)) :
                /\ res' = [res EXCEPT ![r] = st.res]
                /\ exc' = [exc EXCEPT ![r] =
                        IF st.err = "none" THEN "none" ELSE exception_map(t, q, st.err)]
                /\ IF reg
                   THEN /\ pend' = [pend EXCEPT ![c] =
                                IF q = "insert" /\ st.err = "none"
                                THEN @ \cup {[t |-> t, name |-> op[r].name, content |-> op[r].val]}
                                ELSE @]
                        /\ db' = db
                        /\ pc' = [pc EXCEPT ![r] = IF st.err = "none" THEN "run" ELSE "unwind"]
                        /\ ip' = [ip EXCEPT ![r] = IF st.err = "none" THEN @ + 1 ELSE @]
                        /\ goal' = [goal EXCEPT ![r] = "-"]
                   ELSE /\ db' = [db EXCEPT ![t] = st.tbl]
                        /\ pend' = pend
                        /\ pc' = [pc EXCEPT ![r] = "release_q"]
                        /\ UNCHANGED <<ip, goal>>
                /\ eff' = [eff EXCEPT ![r] =
                        IF q \in Writes /\ st.res # <<>>
                        THEN (IF reg THEN "pending" ELSE "durable") ELSE @]
                /\ wconn' = [wconn EXCEPT ![r] =
                        IF q \in Writes THEN (IF reg THEN "registered" ELSE "pool") ELSE @]
    /\ UNCHANGED <<lifespan, pool, pools, holder, conn, nextTx, tx, op, frames, resp, mine, had, gone, drivers>>

\* the "async with self.pool.acquire()" of force_select / transaction_select
\* is left: the connection is back in the pool
release_q(r) ==
    /\ Scheduled(r)
    /\ pc[r] = "release_q"
    /\ holder' = [holder EXCEPT ![mine[r]] = 0]
    /\ mine' = [mine EXCEPT ![r] = 0]
    /\ goal' = [goal EXCEPT ![r] = "-"]
    /\ pc' = [pc EXCEPT ![r] = IF exc[r] = "none" THEN "run" ELSE "unwind"]
    /\ ip' = [ip EXCEPT ![r] = IF exc[r] = "none" THEN @ + 1 ELSE @]
    /\ UNCHANGED <<lifespan, pool, pools, pend, conn, nextTx, db,
                   tx, op, frames, exc, res, resp, eff, wconn, had, gone, drivers>>

\* the wrapped function returns / the tx() block ends normally: a call that
\* found a registered connection just returns, the call that registered it
\* leaves "async with conn.transaction()" with a commit
return(r) ==
    /\ Scheduled(r)
    /\ AtIns(r)
    /\ Ins(r).i \in {"TXX", "CTXX"}
    /\ IF Top(frames[r]).owner
       THEN /\ pc' = [pc EXCEPT ![r] = "commit"]
            /\ UNCHANGED <<frames, ip>>
       ELSE /\ frames' = [frames EXCEPT ![r] = Pop(@)]
            /\ ip' = [ip EXCEPT ![r] = @ + 1]
            /\ UNCHANGED pc
    /\ UNCHANGED <<shared, tx, op, exc, res, resp, mine, goal, eff, wconn, had, gone, drivers>>

\* conn.transaction().__aexit__ without an exception
commit(r) ==
    /\ Scheduled(r)
    /\ pc[r] = "commit"
    /\ db' = Committed(Top(frames[r]).c)
    /\ pend' = [pend EXCEPT ![Top(frames[r]).c] = {}]
    /\ eff' = [eff EXCEPT ![r] = IF @ = "pending" THEN "durable" ELSE @]
    /\ pc' = [pc EXCEPT ![r] = "release"]
    /\ UNCHANGED <<lifespan, pool, pools, holder, conn, nextTx,
                   tx, op, ip, frames, exc, res, resp, mine, goal, wconn, had, gone, drivers>>

\* conn.transaction().__aexit__ with an exception
rollback(r) ==
    /\ Scheduled(r)
    /\ pc[r] = "rollback"
    /\ pend' = [pend EXCEPT ![Top(frames[r]).c] = {}]
    /\ eff' = [eff EXCEPT ![r] = IF @ = "pending" THEN "rolledback" ELSE @]
    /\ pc' = [pc EXCEPT ![r] = "release"]
    /\ UNCHANGED <<lifespan, pool, pools, holder, conn, nextTx, db,
                   tx, op, ip, frames, exc, res, resp, mine, goal, wconn, had, gone, drivers>>

\* driver.pool.acquire().__aexit__: await pool.release(conn)
release(r) ==
    /\ Scheduled(r)
    /\ pc[r] = "release"
    /\ holder' = [holder EXCEPT ![Top(frames[r]).c] = 0]
    /\ pc' = [pc EXCEPT ![r] = "leave"]
    /\ UNCHANGED <<lifespan, pool, pools, pend, conn, nextTx, db,
                   tx, op, ip, frames, exc, res, resp, mine, goal, eff, wconn, had, gone, drivers>>

\* the code after the two "async with" blocks: del driver.conn[get_tx_id()]
leave(r) ==
    /\ Scheduled(r)
    /\ pc[r] = "leave"
    /\ conn' = ConnAfterExit(Top(frames[r]).kind, exc[r], conn, tx[r])
    /\ frames' = [frames EXCEPT ![r] = Pop(@)]
    /\ pc' = [pc EXCEPT ![r] = IF exc[r] = "none" THEN "run" ELSE "unwind"]
    /\ ip' = [ip EXCEPT ![r] = IF exc[r] = "none" THEN @ + 1 ELSE @]
    /\ UNCHANGED <<lifespan, pool, pools, holder, pend, nextTx, db,
                   tx, op, exc, res, resp, mine, goal, eff, wconn, had, gone, drivers>>

\* the places where the body raises by itself: raise ValueError("Error");
\* if len(effect) == 0: raise EmptyResultException(); and in the controller
\* result.model_dump(), which the empty list of a statement without rows
\* does not have
raises(r) ==
    /\ Scheduled(r)
    /\ AtIns(r)
    /\ Ins(r).i \in {"RAISE", "EMPTY", "DUMP"}
    /\ IF Ins(r).i = "RAISE" \/ res[r] = <<>>
       THEN /\ exc' = [exc EXCEPT ![r] =
                    CASE Ins(r).i = "RAISE" -> Ins(r).q
                      [] Ins(r).i = "EMPTY" -> "EmptyResultException"
                      [] Ins(r).i = "DUMP" -> "AttributeError"]
            /\ pc' = [pc EXCEPT ![r] = "unwind"]
            /\ UNCHANGED ip
       ELSE /\ ip' = [ip EXCEPT ![r] = @ + 1]
            /\ UNCHANGED <<exc, pc>>
    /\ UNCHANGED <<shared, tx, op, frames, res, resp, mine, goal, eff, wconn, had, gone, drivers>>

\* an exception passes a transaction / tx() call: through the call that
\* found a registered connection, and into the __aexit__ of the one that
\* registered it
unwind(r) ==
    /\ Scheduled(r)
    /\ pc[r] = "unwind"
    /\ frames[r] # <<>>
    /\ IF Top(frames[r]).owner
       THEN /\ pc' = [pc EXCEPT ![r] = "rollback"]
            /\ UNCHANGED frames
       ELSE /\ frames' = [frames EXCEPT ![r] = Pop(@)]
            /\ UNCHANGED pc
    /\ UNCHANGED <<shared, tx, op, ip, exc, res, resp, mine, goal, eff, wconn, had, gone, drivers>>

\* the response: MasterRoute.custom_handler for a returned value, the
\* exception handlers for a raised exception
finish(r) ==
    /\ Scheduled(r)
    /\ IF pc[r] = "run" THEN ip[r] > Len(Program(op[r]))
       ELSE pc[r] = "unwind" /\ frames[r] = <<>>
    /\ resp' = [resp EXCEPT ![r] = Response(op[r], exc[r], res[r])]
    /\ pc' = [pc EXCEPT ![r] = "done"]
    /\ UNCHANGED <<shared, tx, op, ip, frames, exc, res, mine, goal, eff, wconn, had, gone, drivers>>

\* the response is sent and the task of the request ends
close(r) ==
    /\ Scheduled(r)
    /\ pc[r] = "done"
    /\ pc' = [pc EXCEPT ![r] = "idle"]
    /\ tx' = [tx EXCEPT ![r] = 0]
    /\ op' = [op EXCEPT ![r] = NoOp]
    /\ ip' = [ip EXCEPT ![r] = 0]
    /\ exc' = [exc EXCEPT ![r] = "none"]
    /\ res' = [res EXCEPT ![r] = <<>>]
    /\ resp' = [resp EXCEPT ![r] = NoResp]
    /\ eff' = [eff EXCEPT ![r] = "none"]
    /\ wconn' = [wconn EXCEPT ![r] = "none"]
    /\ had' = [had EXCEPT ![r] = FALSE]
    /\ gone' = [gone EXCEPT ![r] = {}]
    /\ UNCHANGED <<shared, frames, mine, goal, drivers>>

\* _Singleton.__call__: cls(**kwargs) returns the instance of the key of its
\* parameters, made by __init__ if the key is new
Singleton_call(cls, prm, order) ==
    LET d == drivers[cls]
        param_hex == merge_param(KwargsValues(prm, order))
        known == {e \in d.inst_map : e.key = param_hex}
        inst == IF known = {} THEN Len(d.insts) + 1
                ELSE (CHOOSE e \in known : TRUE).inst
    IN /\ Cardinality(d.calls \cup {[prm |-> prm, order |-> order, inst |-> inst]}) <= MaxCalls
       /\ drivers' = [drivers EXCEPT ![cls] =
              [inst_map |-> d.inst_map \cup {[key |-> param_hex, inst |-> inst]},
               insts |-> IF known = {} THEN Append(d.insts, prm) ELSE d.insts,
               calls |-> d.calls \cup {[prm |-> prm, order |-> order, inst |-> inst]}]]
       /\ UNCHANGED <<lifespan, pool, pools, holder, pend, conn, nextTx, db,
                      pc, tx, op, ip, frames, exc, res, resp, mine, goal, eff, wconn, had, gone>>

Step(r) ==
    \/ enter(r)
    \/ start_query(r)
    \/ init_pool(r)
    \/ \E c \in Conns : acquire(r, c)
    \/ acquire_fail(r)
    \/ begin(r)
    \/ query(r)
    \/ release_q(r)
    \/ return(r)
    \/ commit(r)
    \/ rollback(r)
    \/ release(r)
    \/ leave(r)
    \/ raises(r)
    \/ unwind(r)
    \/ finish(r)
    \/ close(r)

Serve(ops) ==
    \/ starup
    \/ \E r \in Reqs : \E o \in ops : dispatch(r, o)
    \/ \E r \in Reqs : Step(r)

OpsOf(routes) == {o \in HttpOps \cup CallerOps : o.route \in routes}

\* the application with requests of every route, and callers that nest the
\* transaction API
Next == Serve(HttpOps \cup CallerOps)
Spec == Init /\ [][Next]_vars

\* the HTTP application: requests of the registered routes
NextHttp == Serve(HttpOps)
SpecHttp == Init /\ [][NextHttp]_vars

\* requests of one controller family
NextNotes == Serve(OpsOf({"notes"}))
SpecNotes == Init /\ [][NextNotes]_vars

NextTasks == Serve(OpsOf({"tasks"}))
SpecTasks == Init /\ [][NextTasks]_vars

NextInternal == Serve(OpsOf({"simple", "transaction", "transaction_exception"}))
SpecInternal == Init /\ [][NextInternal]_vars

\* the callers of the transaction API next to the transactional routes
NextCallers == Serve(OpsOf(CallerRoutes \cup {"transaction"}))
SpecCallers == Init /\ [][NextCallers]_vars

\* constructor calls of the driver classes
NextSingleton ==
    \E cls \in Drivers : \E prm \in Params : \E order \in Orders2 :
        Singleton_call(cls, prm, order)
SpecSingleton == Init /\ [][NextSingleton]_vars

\* ------------------------------------------------------------------------
\* Properties
\* ------------------------------------------------------------------------
\* the request runs code outside of every transaction / tx() call, after its
\* first instruction
Outside(r) ==
    /\ pc[r] \in {"run", "unwind", "done"}
    /\ frames[r] = <<>>
    /\ ~(pc[r] = "run" /\ ip[r] = 1)

\* the outermost call of the request is a @transaction function
OutermostTransaction(r) == op[r].route # "-" /\ Program(op[r])[1].i = "TXE"

\* the outermost call of the request is a tx() block
OutermostTx(r) == op[r].route # "-" /\ Program(op[r])[1].i = "CTXE"

\* C1: once a @transaction call that started without a registered connection
\* has finished, by returning or by raising, driver.conn has no entry for
\* the transaction id of the request
C1_TransactionLeavesNoEntry ==
    \A r \in Reqs : OutermostTransaction(r) /\ Outside(r) => conn[tx[r]] = 0

\* a @transaction call has finished by raising
C1_Witness ==
    \E r \in Reqs :
        /\ OutermostTransaction(r) /\ Outside(r)
        /\ exc[r] = "ValueError"
        /\ eff[r] = "rolledback"
        /\ conn[tx[r]] = 0

\* C2: once a tx() block that was entered without a registered connection is
\* left, normally or by an exception of its body, driver.conn has no entry
\* for the transaction id
C2_TxLeavesNoEntry ==
    \A r \in Reqs : OutermostTx(r) /\ Outside(r) => conn[tx[r]] = 0

\* C3: a transaction / tx() call entered with a registered connection runs
\* on it: inside the outermost call the entry stays the connection that call
\* registered, every inner call uses that connection and registered none,
\* and the request still holds it
C3_NestedRunsOnRegistered ==
    \A r \in Reqs :
        frames[r] # <<>> /\ pc[r] \in {"run", "unwind", "query", "init_pool", "acquire", "release_q"} =>
            /\ frames[r][1].owner
            /\ conn[tx[r]] = frames[r][1].c
            /\ holder[frames[r][1].c] = r
            /\ \A i \in 2..Len(frames[r]) :
                  ~frames[r][i].owner /\ frames[r][i].c = frames[r][1].c

\* an inner @transaction call has returned and the outer call goes on
C3_Witness ==
    \E r \in Reqs :
        /\ op[r].route = "nested_transaction"
        /\ pc[r] = "run" /\ ip[r] = 5
        /\ Len(frames[r]) = 1
        /\ conn[tx[r]] = frames[r][1].c
        /\ eff[r] = "pending"

\* the request has its response
Done(r) == pc[r] = "done" /\ op[r].route \in HttpRoutes

\* the pool served every connection the request asked for
Served(r) == exc[r] \notin {"PostgresError", "KeyError"}

\* C4: create_tx_exc, update_tx_exc and delete_tx_exc leave the internal
\* table as it was: the rows their statement touched are not committed
C4_ExcRoutesRollBack ==
    \A r \in Reqs :
        Done(r) /\ op[r].route = "transaction_exception" => eff[r] # "durable"

\* C5: the write statement of NotesV1US.create and NotesV1US.update runs on
\* the connection registered for the transaction id of the request, and its
\* rows are committed only if the use case returns normally
C5_NotesWritesInTransaction ==
    \A r \in Reqs :
        op[r].route = "notes" /\ op[r].method \in {"POST", "PATCH"} =>
            /\ wconn[r] \in {"none", "registered"}
            /\ eff[r] = "durable" /\ pc[r] \in {"unwind", "done"} => exc[r] = "none"

\* the connection the transaction_select statement of request r runs on
QueryConn(r) == IF goal[r] = "registered" THEN conn[tx[r]] ELSE mine[r]

\* C6: every request in progress has its own transaction id, driver.conn
\* maps no two transaction ids to one connection, and a transaction_select
\* statement runs on no connection registered for another transaction id
C6_RequestsIsolated ==
    /\ \A r1, r2 \in Reqs :
          r1 # r2 /\ pc[r1] # "idle" /\ pc[r2] # "idle" => tx[r1] # tx[r2]
    /\ \A t1, t2 \in TxIds : t1 # t2 /\ conn[t1] # 0 => conn[t1] # conn[t2]
    /\ \A r \in Reqs : pc[r] = "query" /\ Ins(r).i = "T" =>
          \A t \in TxIds \ {tx[r]} : conn[t] # QueryConn(r)

\* two requests are inside their transactions at the same time, and one of
\* them runs its insert
C6_Witness ==
    \E r1, r2 \in Reqs :
        /\ r1 # r2
        /\ tx[r1] # 0 /\ tx[r2] # 0
        /\ conn[tx[r1]] # 0 /\ conn[tx[r2]] # 0
        /\ frames[r1] # <<>> /\ frames[r2] # <<>>
        /\ pc[r2] = "query" /\ Ins(r2).i = "T"

TasksGetByName(r) ==
    /\ Done(r) /\ op[r].route = "tasks" /\ op[r].method = "GET"
    /\ op[r].name \in Names /\ had[r]
    /\ op[r].limit = DefaultLimit /\ op[r].offset = DefaultOffset
    /\ Served(r)

C9_CoreExceptionResponse ==
    \A r \in Reqs :
        Done(r) /\ exc[r] \in CoreExceptions =>
            /\ resp[r].status = status_code(exc[r])
            /\ resp[r].shape = "object"
            /\ resp[r].exception = <<detail(exc[r])>>
            /\ resp[r].status_code = status_code(exc[r])
            /\ resp[r].payload = NullPayload

\* a POST of an existing note is answered with NoteCreateException
C9_Witness ==
    \E r \in Reqs :
        /\ Done(r) /\ exc[r] = "NoteCreateException"
        /\ resp[r].status = 400
        /\ eff[r] = "none"

\* C10: PATCH and DELETE of /v1/notes/ that find no note of the name answer
\* with status 404
C10_MissingNoteIs404 ==
    \A r \in Reqs :
        /\ Done(r) /\ op[r].route = "notes" /\ op[r].method \in {"PATCH", "DELETE"}
        /\ exc[r] = "EmptyResultException"
        => resp[r].status = HTTP_404_NOT_FOUND

\* the update and delete use cases of notes and tasks
UpdateOrDelete(r) ==
    op[r].route \in {"notes", "tasks"} /\ op[r].method \in {"PATCH", "DELETE"}

\* C11: when the update statement of NotesV1US.update / delete or
\* TasksV1US.update / delete runs while no row has the name, it returns no
\* row and leaves every table as it was, and the use case then raises
\* EmptyResultException
C11_EmptyResultOnMissing ==
    /\ [][\A r \in Reqs :
            /\ UpdateOrDelete(r)
            /\ pc[r] = "query" /\ pc'[r] # "query"
            /\ ~db[TableOf(op[r])][op[r].name].present
            => db' = db /\ res'[r] = <<>>]_vars
    /\ [](\A r \in Reqs :
            UpdateOrDelete(r) /\ Done(r) /\ Served(r) /\ res[r] = <<>>
            => exc[r] = "EmptyResultException" /\ eff[r] = "none")

\* a DELETE of a task that does not exist has raised EmptyResultException
C11_Witness ==
    \E r \in Reqs :
        /\ Done(r) /\ op[r].route = "tasks" /\ op[r].method = "DELETE"
        /\ ~db["tasks"][op[r].name].present
        /\ exc[r] = "EmptyResultException"
        /\ wconn[r] = "pool"

\* a GET of /v1/notes/ with a name and no other parameter
NotesGetByName(r) ==
    /\ op[r].route = "notes" /\ op[r].method = "GET"
    /\ op[r].name \in Names
    /\ op[r].limit = DefaultLimit /\ op[r].offset = DefaultOffset

\* C12: when a PATCH of /v1/notes/ with name n and content c is answered
\* with 200, the stored note n has content c; the select of a GET by name n
\* returns first the stored note n with its stored content; and the GET is
\* answered with 200 and these rows as payload
C12_PatchedContentIsRead ==
    /\ [][\A r \in Reqs :
            /\ /\ op[r].route = "notes" /\ op[r].method = "PATCH"
               /\ pc[r] # "done" /\ pc'[r] = "done" /\ exc[r] = "none"
               => /\ resp'[r].status = 200
                  /\ db'["notes"][op[r].name].present
                  /\ db'["notes"][op[r].name].content = op[r].val
            /\ /\ NotesGetByName(r)
               /\ pc[r] = "query" /\ pc'[r] # "query"
               /\ db["notes"][op[r].name].present
               => /\ Len(res'[r]) >= 1
                  /\ res'[r][1].name = op[r].name
                  /\ res'[r][1].content = db["notes"][op[r].name].content]_vars
    /\ [](\A r \in Reqs :
            NotesGetByName(r) /\ Done(r) /\ Served(r)
            => resp[r].status = 200 /\ resp[r].payload.rows = res[r])

\* a GET by name reads the content that a PATCH gave to the note
C12_Witness ==
    \E r \in Reqs :
        /\ NotesGetByName(r) /\ Done(r)
        /\ op[r].name = "n1"
        /\ resp[r].status = 200
        /\ resp[r].payload.rows[1].content = "c2"

\* C13: when a PATCH of /v1/tasks/ with complete = b for an existing task is
\* answered, the stored task has complete = b and the payload reports
\* complete = b
C13_PatchSetsComplete ==
    [][\A r \in Reqs :
          /\ TasksPatch(op[r]) /\ had[r]
          /\ pc[r] # "done" /\ pc'[r] = "done" /\ exc[r] = "none"
          => /\ db'["tasks"][op[r].name].complete = op[r].complete
             /\ Len(resp'[r].payload.rows) = 1
             /\ resp'[r].payload.rows[1].complete = op[r].complete]_vars

\* a DELETE of /v1/notes/
NotesDelete(r) == op[r].route = "notes" /\ op[r].method = "DELETE"

\* C14: the statement of DELETE /v1/notes/?name=n for a stored note n keeps
\* the row and changes nothing but its column deleted, which becomes true
\* (name, content and date_create stay, and so does every other row); the
\* request is answered with 200 and the row is stored with deleted = true
C14_DeleteIsSoft ==
    /\ [][\A r \in Reqs :
            /\ NotesDelete(r)
            /\ pc[r] = "query" /\ pc'[r] # "query"
            /\ db["notes"][op[r].name].present
            => db' = [db EXCEPT !["notes"][op[r].name].deleted = SqlTrue]]_vars
    /\ [](\A r \in Reqs :
            NotesDelete(r) /\ Done(r) /\ had[r] /\ Served(r)
            => /\ resp[r].status = 200
               /\ db["notes"][op[r].name].present
               /\ db["notes"][op[r].name].deleted = SqlTrue
               /\ db["notes"][op[r].name].date_create = "created")

\* the note n1 has been deleted: its row is stored with the content it had
C14_Witness ==
    \E r \in Reqs :
        /\ NotesDelete(r) /\ Done(r) /\ had[r]
        /\ op[r].name = "n1"
        /\ resp[r].status = 200
        /\ db["notes"]["n1"].present
        /\ db["notes"]["n1"].deleted = SqlTrue
        /\ db["notes"]["n1"].content = "c1"

\* C15: a GET of /v1/notes/ returns no note that was soft-deleted when the
\* request came: no element of its payload has the name of such a note
C15_DeletedNotReturned ==
    \A r \in Reqs :
        op[r].route = "notes" /\ op[r].method = "GET" /\ Done(r) =>
            \A k \in 1..Len(resp[r].payload.rows) :
                resp[r].payload.rows[k].name \notin gone[r]

NotesCreate(r) == op[r].route = "notes" /\ op[r].method = "POST"

\* C17: when the insert of NotesV1US.create meets a note of the same name, it
\* raises NoteCreateException and adds no row, committed or pending; the
\* request is answered with 400 and the message of NoteCreateException, no
\* row of it stays pending, and driver.conn has no entry for its
\* transaction id
C17_UniqueViolation ==
    /\ [][\A r \in Reqs :
            /\ NotesCreate(r)
            /\ pc[r] = "query" /\ pc'[r] # "query"
            /\ View(QueryConn(r), "notes")[op[r].name].present
            => /\ exc'[r] = "NoteCreateException"
               /\ db' = db /\ pend' = pend]_vars
    /\ [](\A r \in Reqs :
            NotesCreate(r) /\ Done(r) /\ exc[r] = "NoteCreateException"
            => /\ resp[r].status = 400
               /\ resp[r].status_code = 400
               /\ resp[r].exception = <<"can-t create notes">>
               /\ eff[r] = "none"
               /\ conn[tx[r]] = 0
               /\ \A c \in Conns : holder[c] # r)

\* a POST of the stored note n1 has been answered with 400; the note keeps
\* its content
C17_Witness ==
    \E r \in Reqs :
        /\ NotesCreate(r) /\ Done(r) /\ exc[r] = "NoteCreateException"
        /\ op[r].name = "n1"
        /\ db["notes"]["n1"].content = "c1"
        /\ conn[tx[r]] = 0

\* C18: asyncpg.create_pool is called at most once for the driver, whatever
\* the number and the interleaving of the calls of _init_pool
C18_AtMostOnePool == pools <= 1

\* C19: two constructor calls of a driver class return the same instance if
\* their parameter values are equal, and two instances if a value differs
C19_InstancePerParameters ==
    \A cls \in Drivers : \A c1, c2 \in drivers[cls].calls :
        (c1.prm = c2.prm) <=> (c1.inst = c2.inst)

\* the request waits in pool.acquire()
Waiting(r) == pc[r] = "acquire"

\* C20: the requests never block each other for ever: it never happens
\* that every connection of the pool is held by a request that waits in
\* pool.acquire() for another connection
C20_NoPoolDeadlock ==
    ~(\A c \in Conns : holder[c] # 0 /\ Waiting(holder[c]))

====
